---- MODULE Spec2Model ----
(***************************************************************************)
(* Model of the continuous voice capture session controller, VoiceService  *)
(* (src/js/voice.js), together with the recognition engines it creates and *)
(* the retry timers it schedules.                                          *)
(*                                                                         *)
(* Strings are sequences of tokens; the token " " is one whitespace        *)
(* character, every other token is a run of characters that neither starts *)
(* nor ends with whitespace.                                               *)
(* A recognition handle is identified by the session identifier that was   *)
(* current when startListeningForQuestion created it, which is also the    *)
(* identifier its event handlers capture in their closure.                 *)
(***************************************************************************)
EXTENDS Integers, Sequences, FiniteSets, TLC

\* ------------------------------------------------------------------ bounds

\* Largest session identifier the model lets the controller reach.
MaxSession == 4

\* Largest length (in tokens) of the final transcript buffer.
MaxBuf == 4

\* ------------------------------------------------------------- vocabulary

\* null, for the handle reference, the active session and the callbacks.
Null == 0

NoQuestion == "null"

QuestionIds == {"Q1", "Q2"}

\* Whether the caller passes a callback: the repository's caller
\* (interviewEngine.js, toggleVoiceRecording) always passes both.
Supplied == {TRUE}

\* event.error kinds: the four the code names and one it does not.
ErrorKinds == {"no-speech", "aborted", "audio-capture", "not-allowed", "network"}

\* What engine.start() can do: return, or throw one of two kinds of exception.
StartOutcomes == {"ok", "InvalidStateError", "Error"}

Handles == 1..MaxSession

\* -------------------------------------------------------------- variables

VARIABLES
    recognition,            \* this.recognition: a handle or Null
    currentSessionId,       \* this.currentSessionId
    activeSessionId,        \* this.activeSessionId
    isListening,            \* this.isListening
    finalTranscript,        \* this.finalTranscript
    interimTranscript,      \* this.interimTranscript
    onTranscriptCallback,   \* this.onTranscriptCallback: Null or the session whose start call supplied it
    onErrorCallback,        \* this.onErrorCallback: likewise
    shouldContinue,         \* this.shouldContinue
    currentQuestionId,      \* this.currentQuestionId
    eng,                    \* state of every engine object ever created
    hooks,                  \* handles whose four event hooks are bound
    timers,                 \* pending setTimeout callbacks of the retry path
    cbLog,                  \* callbacks invoked by the last step, in order
    engLog,                 \* engine operations invoked by the last step, in order
    lastOp,                 \* the last step: which operation or event, and what it returned
    submitted,              \* submitAndStop() has returned and startListeningForQuestion was not called since
    raised,                 \* the last step let an exception escape to its caller
    surfaced,               \* an error event of the current session was reported and startListeningForQuestion was not called since
    isRecording,            \* the interview engine's state.isRecording
    currentQuestion,        \* the interview engine's state.currentQuestion
    answerInput,            \* the interview engine's elements.answerInput.value
    disabled                \* the answer input and its buttons are disabled

fields == <<recognition, currentSessionId, activeSessionId, isListening,
            finalTranscript, interimTranscript, onTranscriptCallback,
            onErrorCallback, shouldContinue, currentQuestionId>>

vars == <<recognition, currentSessionId, activeSessionId, isListening,
          finalTranscript, interimTranscript, onTranscriptCallback,
          onErrorCallback, shouldContinue, currentQuestionId,
          eng, hooks, timers, cbLog, engLog, lastOp, submitted, raised, surfaced,
          isRecording, currentQuestion, answerInput, disabled>>

\* The state of the caller, the interview engine.
caller == <<isRecording, currentQuestion, answerInput, disabled>>

\* ---------------------------------------------------------------- strings

RECURSIVE TrimLeft(_)
TrimLeft(s) ==
    IF s # <<>> /\ Head(s) = " " THEN TrimLeft(Tail(s)) ELSE s

RECURSIVE TrimRight(_)
TrimRight(s) ==
    IF s # <<>> /\ s[Len(s)] = " " THEN TrimRight(SubSeq(s, 1, Len(s) - 1)) ELSE s

\* String.prototype.trim
Trim(s) == TrimRight(TrimLeft(s))

\* ------------------------------------------------------------------ world

\* The controller, its engines and its timers as one value, so that the
\* methods below compose the way the code calls them. thrown: an exception
\* is on its way up; ok: the value the call returns.
World ==
    [recognition |-> recognition,
     currentSessionId |-> currentSessionId,
     activeSessionId |-> activeSessionId,
     isListening |-> isListening,
     finalTranscript |-> finalTranscript,
     interimTranscript |-> interimTranscript,
     onTranscriptCallback |-> onTranscriptCallback,
     onErrorCallback |-> onErrorCallback,
     shouldContinue |-> shouldContinue,
     currentQuestionId |-> currentQuestionId,
     eng |-> eng,
     hooks |-> hooks,
     timers |-> timers,
     cbLog |-> <<>>,
     engLog |-> <<>>,
     ok |-> FALSE,
     thrown |-> FALSE]

\* An engine the controller neither holds nor has hooks bound on can no
\* longer be told anything nor tell anything: of it only whether it still
\* runs (start invoked, neither ended nor aborted) is kept, and once ended
\* it is garbage.
afterDrop(e) ==
    CASE e \in {"starting", "running", "stopping", "errored"} -> "running"
      [] e = "idle" -> "none"
      [] OTHER -> e

Apply(w) ==
    /\ recognition' = w.recognition
    /\ currentSessionId' = w.currentSessionId
    /\ activeSessionId' = w.activeSessionId
    /\ isListening' = w.isListening
    /\ finalTranscript' = w.finalTranscript
    /\ interimTranscript' = w.interimTranscript
    /\ onTranscriptCallback' = w.onTranscriptCallback
    /\ onErrorCallback' = w.onErrorCallback
    /\ shouldContinue' = w.shouldContinue
    /\ currentQuestionId' = w.currentQuestionId
    /\ eng' = [h \in Handles |-> IF h = w.recognition \/ h \in w.hooks
                                  THEN w.eng[h]
                                  ELSE afterDrop(w.eng[h])]
    /\ hooks' = w.hooks
    /\ timers' = w.timers
    /\ cbLog' = w.cbLog
    /\ engLog' = w.engLog
    /\ raised' = w.thrown

\* The record of a step. name: the operation or event. h: the handle an
\* event came from, the handle held after startListeningForQuestion, the
\* session of a retry timer. ok: the value startListeningForQuestion
\* returned; for an event, whether a hook was bound to receive it. text: the
\* value getCurrentTranscript returned; for a result event, event.results
\* from event.resultIndex on. kind: event.error of an error event; for
\* startListeningForQuestion, "no-engine" when no engine could be created
\* and otherwise what the new engine's start() did; for hardReset and
\* submitAndStop, "again" when the step before was the same call; for an end
\* event, event.error of the error event when the step before was that
\* engine's error event.
\* changed: the call changed the question. hadText: the transcript was not
\* empty when the call was made.
Op(name, h, ok, text, kind, changed, hadText) ==
    [name |-> name, h |-> h, ok |-> ok, text |-> text, kind |-> kind,
     changed |-> changed, hadText |-> hadText]

\* Invoking a caller-supplied callback; owner is the session of the
\* startListeningForQuestion call that supplied it.
Invoke(w, cb, owner, arg) ==
    [w EXCEPT !.cbLog = Append(@, [cb |-> cb, owner |-> owner, arg |-> arg])]

\* ----------------------------------------------------------------- engine

\* SpeechRecognition.start(): throws InvalidStateError on an engine that is
\* already started; on an idle engine the environment decides.
startResult(w, h, outcome) ==
    IF w.eng[h] = "idle" THEN outcome ELSE "InvalidStateError"

engineStart(w, h, outcome) ==
    [w EXCEPT !.eng[h] = IF startResult(w, h, outcome) = "ok" THEN "starting" ELSE @,
              !.engLog = Append(@, [op |-> "start", h |-> h]),
              !.thrown = startResult(w, h, outcome) # "ok"]

\* SpeechRecognition.stop(): a started engine stops gracefully (it may still
\* flush results before its end event).
engineStop(w, h, throws) ==
    [w EXCEPT !.eng[h] = IF ~throws /\ @ \in {"starting", "running"} THEN "stopping" ELSE @,
              !.engLog = Append(@, [op |-> "stop", h |-> h]),
              !.thrown = throws]

\* SpeechRecognition.abort(): a started engine stops at once.
engineAbort(w, h, throws) ==
    [w EXCEPT !.eng[h] = IF ~throws /\ @ \in {"starting", "running", "stopping", "errored"}
                         THEN "aborted" ELSE @,
              !.engLog = Append(@, [op |-> "abort", h |-> h]),
              !.thrown = throws]

\* A catch block: the exception thrown inside the try goes no further.
caught(w) == [w EXCEPT !.thrown = FALSE]

\* ------------------------------------------------------------- controller

\* createFreshRecognition(): a new engine object, or null when the platform
\* has no SpeechRecognition or its constructor throws.
createFreshRecognition(sessionId, canCreate) ==
    IF canCreate THEN sessionId ELSE Null

\* destroyRecognition that leaves the listening flag as it found it.
destroyRecognition_KeepsListening(w, abortThrows) ==
    LET h == w.recognition
        unbound == [w EXCEPT !.hooks = @ \ {h}]
        stopped == IF w.isListening THEN caught(engineAbort(unbound, h, abortThrows)) ELSE unbound
    IN  IF h # Null THEN [stopped EXCEPT !.recognition = Null] ELSE w

\* destroyRecognition that unbinds and aborts but forgets to drop the reference.
destroyRecognition_KeepsHandle(w, abortThrows) ==
    LET h == w.recognition
        unbound == [w EXCEPT !.hooks = @ \ {h}]
        stopped == IF w.isListening THEN caught(engineAbort(unbound, h, abortThrows)) ELSE unbound
        dropped == IF h # Null THEN stopped ELSE w
    IN  [dropped EXCEPT !.isListening = FALSE]

destroyRecognition(w, abortThrows) ==
    LET h == w.recognition
        unbound == [w EXCEPT !.hooks = @ \ {h}]
        stopped == IF w.isListening THEN caught(engineAbort(unbound, h, abortThrows)) ELSE unbound
        dropped == IF h # Null THEN [stopped EXCEPT !.recognition = Null] ELSE w
    IN  [dropped EXCEPT !.isListening = FALSE]

\* hardReset whose abort call is not inside a try: when abort throws, the
\* exception escapes and the rest of the method does not run.
hardReset_Unguarded(w, abortThrows) ==
    LET w1 == [w EXCEPT !.currentSessionId = @ + 1,
                        !.shouldContinue = FALSE]
        w2 == IF w1.isListening /\ w1.recognition # Null
              THEN engineAbort(w1, w1.recognition, abortThrows)
              ELSE w1
        w3 == [w2 EXCEPT !.finalTranscript = <<>>,
                         !.interimTranscript = <<>>,
                         !.isListening = FALSE,
                         !.activeSessionId = Null,
                         !.onTranscriptCallback = Null,
                         !.onErrorCallback = Null]
    IN  IF w2.thrown THEN w2 ELSE destroyRecognition(w3, abortThrows)

\* hardReset that forgets to increment the session identifier.
hardReset_NoBump(w, abortThrows) ==
    LET w2 == IF w.isListening /\ w.recognition # Null
              THEN caught(engineAbort([w EXCEPT !.shouldContinue = FALSE], w.recognition, abortThrows))
              ELSE [w EXCEPT !.shouldContinue = FALSE]
        w3 == [w2 EXCEPT !.finalTranscript = <<>>,
                         !.interimTranscript = <<>>,
                         !.isListening = FALSE,
                         !.activeSessionId = Null,
                         !.onTranscriptCallback = Null,
                         !.onErrorCallback = Null]
    IN  destroyRecognition(w3, abortThrows)

\* hardReset that forgets to clear the transcript buffers.
hardReset_KeepsTranscript(w, abortThrows) ==
    LET w1 == [w EXCEPT !.currentSessionId = @ + 1,
                        !.shouldContinue = FALSE]
        w2 == IF w1.isListening /\ w1.recognition # Null
              THEN caught(engineAbort(w1, w1.recognition, abortThrows))
              ELSE w1
        w3 == [w2 EXCEPT !.isListening = FALSE,
                         !.activeSessionId = Null,
                         !.onTranscriptCallback = Null,
                         !.onErrorCallback = Null]
    IN  destroyRecognition(w3, abortThrows)

hardReset(w, abortThrows) ==
    LET w1 == [w EXCEPT !.currentSessionId = @ + 1,
                        !.shouldContinue = FALSE]
        w2 == IF w1.isListening /\ w1.recognition # Null
              THEN caught(engineAbort(w1, w1.recognition, abortThrows))
              ELSE w1
        w3 == [w2 EXCEPT !.finalTranscript = <<>>,
                         !.interimTranscript = <<>>,
                         !.isListening = FALSE,
                         !.activeSessionId = Null,
                         !.onTranscriptCallback = Null,
                         !.onErrorCallback = Null]
    IN  destroyRecognition(w3, abortThrows)

\* The catch block of the initial start (voice.js 231-254); returns false.
startFailed(w, sessionId, onError, thrown, stopThrows) ==
    LET failed == IF onError
                  THEN Invoke(w, "onError", sessionId, <<"Failed to start voice input">>)
                  ELSE w
        w1 == IF thrown = "InvalidStateError"
              THEN LET stopped == caught(engineStop(w, sessionId, stopThrows))
                   IN  IF stopThrows
                       THEN IF onError
                            THEN Invoke(stopped, "onError", sessionId, <<"Failed to start voice input">>)
                            ELSE stopped
                       ELSE [stopped EXCEPT !.timers = @ \cup {[sid |-> sessionId, onError |-> onError]}]
              ELSE failed
    IN  [w1 EXCEPT !.ok = FALSE]

startListeningForQuestion(w, questionId, onTranscript, onError, canCreate, outcome, stopThrows, abortThrows) ==
    LET w1 == IF w.currentQuestionId # questionId
              THEN [hardReset(w, abortThrows) EXCEPT !.currentQuestionId = questionId]
              ELSE w
        sessionId == w1.currentSessionId + 1
        w2 == [w1 EXCEPT !.currentSessionId = sessionId,
                         !.activeSessionId = sessionId]
        w3 == destroyRecognition(w2, abortThrows)
        h  == createFreshRecognition(sessionId, canCreate)
    IN  IF h = Null
        THEN [(IF onError
               THEN Invoke(w3, "onError", sessionId, <<"Speech recognition not supported">>)
               ELSE w3) EXCEPT !.ok = FALSE]
        ELSE LET w4 == [w3 EXCEPT !.recognition = h,
                                  !.eng[h] = "idle",
                                  !.finalTranscript = <<>>,
                                  !.interimTranscript = <<>>,
                                  !.onTranscriptCallback = IF onTranscript THEN sessionId ELSE Null,
                                  !.onErrorCallback = IF onError THEN sessionId ELSE Null,
                                  !.shouldContinue = TRUE,
                                  !.hooks = @ \cup {h}]
                 thrown == startResult(w4, h, outcome)
                 w5 == caught(engineStart(w4, h, outcome))
             IN  IF thrown = "ok"
                 THEN [w5 EXCEPT !.ok = TRUE]
                 ELSE startFailed(w5, sessionId, onError, thrown, stopThrows)

\* The retry callback that starts whatever handle is held, of its own
\* session or of a later one.
retryTimer_AnyHeldHandle(w, t, outcome) ==
    LET w0 == [w EXCEPT !.timers = @ \ {t}]
        thrown == IF w0.recognition = Null THEN "TypeError"
                  ELSE startResult(w0, w0.recognition, outcome)
        w1 == IF w0.recognition = Null THEN w0
              ELSE caught(engineStart(w0, w0.recognition, outcome))
    IN  IF t.sid <= w0.currentSessionId /\ w0.recognition # Null
        THEN IF thrown = "ok"
             THEN w1
             ELSE IF t.onError
                  THEN Invoke(w1, "onError", t.sid, <<"Failed to start voice input">>)
                  ELSE w1
        ELSE w0

\* The retry callback without the session comparison.
retryTimer_NoSessionCheck(w, t, outcome) ==
    LET w0 == [w EXCEPT !.timers = @ \ {t}]
        thrown == IF w0.recognition = Null THEN "TypeError"
                  ELSE startResult(w0, w0.recognition, outcome)
        w1 == IF w0.recognition = Null THEN w0
              ELSE caught(engineStart(w0, w0.recognition, outcome))
    IN  IF thrown = "ok"
        THEN w1
        ELSE IF t.onError
             THEN Invoke(w1, "onError", t.sid, <<"Failed to start voice input">>)
             ELSE w1

\* The setTimeout callback of the retry path (voice.js 238-246); t is the
\* timer, carrying what its closure captured.
retryTimer(w, t, outcome) ==
    LET w0 == [w EXCEPT !.timers = @ \ {t}]
        \* this.recognition.start() on null throws as well
        thrown == IF w0.recognition = Null THEN "TypeError"
                  ELSE startResult(w0, w0.recognition, outcome)
        w1 == IF w0.recognition = Null THEN w0
              ELSE caught(engineStart(w0, w0.recognition, outcome))
    IN  IF t.sid = w0.currentSessionId
        THEN IF thrown = "ok"
             THEN w1
             ELSE IF t.onError
                  THEN Invoke(w1, "onError", t.sid, <<"Failed to start voice input">>)
                  ELSE w1
        ELSE w0

\* stopListening whose stop call is not inside a try: when stop throws, the
\* exception escapes and the flag is not cleared.
stopListening_Unguarded(w, stopThrows) ==
    LET w1 == [w EXCEPT !.shouldContinue = FALSE]
        w2 == IF w1.recognition # Null /\ w1.isListening
              THEN engineStop(w1, w1.recognition, stopThrows)
              ELSE w1
    IN  IF w2.thrown THEN w2 ELSE [w2 EXCEPT !.isListening = FALSE]

\* stopListening that also clears the transcript buffers.
stopListening_ClearsTranscript(w, stopThrows) ==
    LET w1 == [w EXCEPT !.shouldContinue = FALSE]
        w2 == IF w1.recognition # Null /\ w1.isListening
              THEN caught(engineStop(w1, w1.recognition, stopThrows))
              ELSE w1
    IN  [w2 EXCEPT !.isListening = FALSE,
                   !.finalTranscript = <<>>,
                   !.interimTranscript = <<>>]

stopListening(w, stopThrows) ==
    LET w1 == [w EXCEPT !.shouldContinue = FALSE]
        w2 == IF w1.recognition # Null /\ w1.isListening
              THEN caught(engineStop(w1, w1.recognition, stopThrows))
              ELSE w1
    IN  [w2 EXCEPT !.isListening = FALSE]

\* submitAndStop that records the new session as the active one.
submitAndStop_ActiveIsCurrent(w, stopThrows) ==
    LET w1 == [w EXCEPT !.shouldContinue = FALSE]
        w2 == IF w1.recognition # Null /\ w1.isListening
              THEN caught(engineStop(w1, w1.recognition, stopThrows))
              ELSE w1
    IN  [w2 EXCEPT !.isListening = FALSE,
                   !.currentSessionId = @ + 1,
                   !.activeSessionId = w2.currentSessionId + 1]

\* submitAndStop that also clears the stored callbacks.
submitAndStop_ClearsCallbacks(w, stopThrows) ==
    LET w1 == [w EXCEPT !.shouldContinue = FALSE]
        w2 == IF w1.recognition # Null /\ w1.isListening
              THEN caught(engineStop(w1, w1.recognition, stopThrows))
              ELSE w1
    IN  [w2 EXCEPT !.isListening = FALSE,
                   !.currentSessionId = @ + 1,
                   !.activeSessionId = Null,
                   !.onTranscriptCallback = Null,
                   !.onErrorCallback = Null]

\* submitAndStop that forgets to increment the session identifier.
submitAndStop_NoBump(w, stopThrows) ==
    LET w1 == [w EXCEPT !.shouldContinue = FALSE]
        w2 == IF w1.recognition # Null /\ w1.isListening
              THEN caught(engineStop(w1, w1.recognition, stopThrows))
              ELSE w1
    IN  [w2 EXCEPT !.isListening = FALSE,
                   !.activeSessionId = Null]

submitAndStop(w, stopThrows) ==
    LET w1 == [w EXCEPT !.shouldContinue = FALSE]
        w2 == IF w1.recognition # Null /\ w1.isListening
              THEN caught(engineStop(w1, w1.recognition, stopThrows))
              ELSE w1
    IN  [w2 EXCEPT !.isListening = FALSE,
                   !.currentSessionId = @ + 1,
                   !.activeSessionId = Null]

getCurrentTranscript(w) ==
    Trim(w.finalTranscript \o <<" ">> \o w.interimTranscript)

isActive(w) == w.isListening

\* --------------------------------------------------------- event handlers
\* Each takes the handle h the event comes from; the sessionId its closure
\* captured is h.

onstart(w, h) ==
    [w EXCEPT !.isListening = TRUE]

\* onend that starts the restarted engine on an empty final buffer.
onend_RestartClearsTranscript(w, h, outcome) ==
    IF w.shouldContinue /\ h = w.currentSessionId /\ w.isListening
    THEN IF w.recognition = Null
         THEN [w EXCEPT !.isListening = FALSE]
         ELSE LET w1 == caught(engineStart([w EXCEPT !.finalTranscript = <<>>], w.recognition, outcome))
              IN  IF startResult(w, w.recognition, outcome) = "ok"
                  THEN w1
                  ELSE [w1 EXCEPT !.isListening = FALSE]
    ELSE [w EXCEPT !.isListening = FALSE]

\* onend that reports a failed restart through the stored error callback.
onend_ReportsFailedRestart(w, h, outcome) ==
    IF w.shouldContinue /\ h = w.currentSessionId /\ w.isListening
    THEN IF w.recognition = Null
         THEN [w EXCEPT !.isListening = FALSE]
         ELSE LET w1 == caught(engineStart(w, w.recognition, outcome))
              IN  IF startResult(w, w.recognition, outcome) = "ok"
                  THEN w1
                  ELSE [(IF w1.onErrorCallback # Null
                         THEN Invoke(w1, "onError", w1.onErrorCallback, <<"Failed to start voice input">>)
                         ELSE w1) EXCEPT !.isListening = FALSE]
    ELSE [w EXCEPT !.isListening = FALSE]

\* onend that restarts without looking at the listening flag.
onend_IgnoresListening(w, h, outcome) ==
    IF w.shouldContinue /\ h = w.currentSessionId
    THEN IF w.recognition = Null
         THEN [w EXCEPT !.isListening = FALSE]
         ELSE LET w1 == caught(engineStart(w, w.recognition, outcome))
              IN  IF startResult(w, w.recognition, outcome) = "ok"
                  THEN w1
                  ELSE [w1 EXCEPT !.isListening = FALSE]
    ELSE [w EXCEPT !.isListening = FALSE]

\* onend that restarts without looking at the continuation flag.
onend_IgnoresShouldContinue(w, h, outcome) ==
    IF h = w.currentSessionId /\ w.isListening
    THEN IF w.recognition = Null
         THEN [w EXCEPT !.isListening = FALSE]
         ELSE LET w1 == caught(engineStart(w, w.recognition, outcome))
              IN  IF startResult(w, w.recognition, outcome) = "ok"
                  THEN w1
                  ELSE [w1 EXCEPT !.isListening = FALSE]
    ELSE [w EXCEPT !.isListening = FALSE]

onend(w, h, outcome) ==
    IF w.shouldContinue /\ h = w.currentSessionId /\ w.isListening
    THEN IF w.recognition = Null
         THEN [w EXCEPT !.isListening = FALSE]
         ELSE LET w1 == caught(engineStart(w, w.recognition, outcome))
              IN  IF startResult(w, w.recognition, outcome) = "ok"
                  THEN w1
                  ELSE [w1 EXCEPT !.isListening = FALSE]
    ELSE [w EXCEPT !.isListening = FALSE]

RECURSIVE newFinalTranscript(_)
newFinalTranscript(results) ==
    IF results = <<>> THEN <<>>
    ELSE (IF Head(results).isFinal THEN Head(results).transcript \o <<" ">> ELSE <<>>)
         \o newFinalTranscript(Tail(results))

RECURSIVE newInterimTranscript(_)
newInterimTranscript(results) ==
    IF results = <<>> THEN <<>>
    ELSE (IF Head(results).isFinal THEN <<>> ELSE Head(results).transcript)
         \o newInterimTranscript(Tail(results))

RECURSIVE newFinalTranscript_NoSpace(_)
newFinalTranscript_NoSpace(results) ==
    IF results = <<>> THEN <<>>
    ELSE (IF Head(results).isFinal THEN Head(results).transcript ELSE <<>>)
         \o newFinalTranscript_NoSpace(Tail(results))

\* onresult that appends the finalized fragments without the space after each.
onresult_NoSpace(w, h, results) ==
    IF h # w.currentSessionId
    THEN w
    ELSE LET w1 == IF newFinalTranscript_NoSpace(results) # <<>>
                   THEN [w EXCEPT !.finalTranscript = @ \o newFinalTranscript_NoSpace(results)]
                   ELSE w
             currentTranscript ==
                 Trim(w1.finalTranscript \o <<" ">> \o newInterimTranscript(results))
         IN  IF w1.onTranscriptCallback # Null
             THEN Invoke(w1, "onTranscript", w1.onTranscriptCallback, currentTranscript)
             ELSE w1

\* onresult that overwrites the final buffer with the fragments of the event.
onresult_Replaces(w, h, results) ==
    IF h # w.currentSessionId
    THEN w
    ELSE LET w1 == IF newFinalTranscript(results) # <<>>
                   THEN [w EXCEPT !.finalTranscript = newFinalTranscript(results)]
                   ELSE w
             currentTranscript ==
                 Trim(w1.finalTranscript \o <<" ">> \o newInterimTranscript(results))
         IN  IF w1.onTranscriptCallback # Null
             THEN Invoke(w1, "onTranscript", w1.onTranscriptCallback, currentTranscript)
             ELSE w1

\* onresult that also ignores results once the continuation flag is false.
onresult_OnlyWhileContinuing(w, h, results) ==
    IF h # w.currentSessionId \/ ~w.shouldContinue
    THEN w
    ELSE LET w1 == IF newFinalTranscript(results) # <<>>
                   THEN [w EXCEPT !.finalTranscript = @ \o newFinalTranscript(results)]
                   ELSE w
             currentTranscript ==
                 Trim(w1.finalTranscript \o <<" ">> \o newInterimTranscript(results))
         IN  IF w1.onTranscriptCallback # Null
             THEN Invoke(w1, "onTranscript", w1.onTranscriptCallback, currentTranscript)
             ELSE w1

\* onresult without the session comparison.
onresult_NoSessionCheck(w, h, results) ==
    LET w1 == IF newFinalTranscript(results) # <<>>
              THEN [w EXCEPT !.finalTranscript = @ \o newFinalTranscript(results)]
              ELSE w
        currentTranscript ==
            Trim(w1.finalTranscript \o <<" ">> \o newInterimTranscript(results))
    IN  IF w1.onTranscriptCallback # Null
        THEN Invoke(w1, "onTranscript", w1.onTranscriptCallback, currentTranscript)
        ELSE w1

onresult(w, h, results) ==
    IF h # w.currentSessionId
    THEN w
    ELSE LET w1 == IF newFinalTranscript(results) # <<>>
                   THEN [w EXCEPT !.finalTranscript = @ \o newFinalTranscript(results)]
                   ELSE w
             currentTranscript ==
                 Trim(w1.finalTranscript \o <<" ">> \o newInterimTranscript(results))
         IN  IF w1.onTranscriptCallback # Null
             THEN Invoke(w1, "onTranscript", w1.onTranscriptCallback, currentTranscript)
             ELSE w1

errorMessage(kind) ==
    CASE kind = "audio-capture" -> <<"No microphone found">>
      [] kind = "not-allowed" -> <<"Microphone access denied">>
      [] OTHER -> <<"Error: ", kind>>

\* onerror that reports the no-speech and aborted kinds like any other.
onerror_ReportsBenign(w, h, kind) ==
    IF h # w.currentSessionId
    THEN w
    ELSE LET w1 == IF w.onErrorCallback # Null
                   THEN Invoke(w, "onError", w.onErrorCallback, errorMessage(kind))
                   ELSE w
         IN  IF kind \in {"no-speech", "aborted"}
             THEN w1
             ELSE [w1 EXCEPT !.isListening = FALSE]

\* onerror that reports the error and leaves the listening flag alone.
onerror_KeepsListening(w, h, kind) ==
    IF h # w.currentSessionId
    THEN w
    ELSE IF kind \in {"no-speech", "aborted"}
         THEN w
         ELSE IF w.onErrorCallback # Null
              THEN Invoke(w, "onError", w.onErrorCallback, errorMessage(kind))
              ELSE w

\* onerror that clears the listening flag for the no-speech and aborted
\* kinds too.
onerror_BenignStopsListening(w, h, kind) ==
    IF h # w.currentSessionId
    THEN w
    ELSE IF kind \in {"no-speech", "aborted"}
         THEN [w EXCEPT !.isListening = FALSE]
         ELSE LET w1 == IF w.onErrorCallback # Null
                        THEN Invoke(w, "onError", w.onErrorCallback, errorMessage(kind))
                        ELSE w
              IN  [w1 EXCEPT !.isListening = FALSE]

onerror(w, h, kind) ==
    IF h # w.currentSessionId
    THEN w
    ELSE IF kind \in {"no-speech", "aborted"}
         THEN w
         ELSE LET w1 == IF w.onErrorCallback # Null
                        THEN Invoke(w, "onError", w.onErrorCallback, errorMessage(kind))
                        ELSE w
              IN  [w1 EXCEPT !.isListening = FALSE]

\* ---------------------------------------------------------------- actions

Init ==
    /\ recognition = Null
    /\ currentSessionId = 0
    /\ activeSessionId = Null
    /\ isListening = FALSE
    /\ finalTranscript = <<>>
    /\ interimTranscript = <<>>
    /\ onTranscriptCallback = Null
    /\ onErrorCallback = Null
    /\ shouldContinue = FALSE
    /\ currentQuestionId = NoQuestion
    /\ eng = [h \in Handles |-> "none"]
    /\ hooks = {}
    /\ timers = {}
    /\ cbLog = <<>>
    /\ engLog = <<>>
    /\ lastOp = Op("constructor", Null, FALSE, <<>>, "", FALSE, FALSE)
    /\ submitted = FALSE
    /\ raised = FALSE
    /\ surfaced = FALSE
    /\ isRecording = FALSE
    /\ currentQuestion = NoQuestion
    /\ answerInput = <<>>
    /\ disabled = TRUE

\* Whether an engine call throws, and what start() does, are choices of the
\* environment; they are drawn only in the states where the step can make
\* the call.
Throws(called) == IF called THEN BOOLEAN ELSE {FALSE}

Outcomes(called) == IF called THEN StartOutcomes ELSE {"ok"}

\* A call of startListeningForQuestion(questionId, onTranscript, onError).
StartCall(questionId) ==
    \E onTranscript \in Supplied, onError \in Supplied,
       canCreate \in BOOLEAN, abortThrows \in Throws(isListening /\ recognition # Null) :
    \E outcome \in Outcomes(canCreate) :
    \E stopThrows \in Throws(outcome = "InvalidStateError") :
        /\ currentSessionId + (IF currentQuestionId # questionId THEN 2 ELSE 1) <= MaxSession
        /\ LET w == startListeningForQuestion(World, questionId, onTranscript, onError,
                                              canCreate, outcome, stopThrows, abortThrows)
           IN  /\ Apply(w)
               /\ lastOp' = Op("startListeningForQuestion", w.recognition, w.ok, <<>>,
                               IF canCreate THEN outcome ELSE "no-engine",
                               currentQuestionId # questionId,
                               getCurrentTranscript(World) # <<>>)
        /\ submitted' = FALSE
        /\ surfaced' = FALSE

\* Some caller calls startListeningForQuestion.
StartListeningForQuestion ==
    \E questionId \in QuestionIds : StartCall(questionId) /\ UNCHANGED caller

HardReset ==
    \E abortThrows \in Throws(isListening /\ recognition # Null) :
        /\ currentSessionId + 1 <= MaxSession
        /\ Apply(hardReset(World, abortThrows))
        /\ lastOp' = Op("hardReset", Null, FALSE, <<>>,
                        IF lastOp.name = "hardReset" THEN "again" ELSE "", FALSE, FALSE)
        /\ UNCHANGED <<submitted, surfaced, caller>>

\* A call of stopListening().
StopCall ==
    \E stopThrows \in Throws(isListening /\ recognition # Null) :
        /\ Apply(stopListening(World, stopThrows))
        /\ lastOp' = Op("stopListening", Null, FALSE, <<>>, "", FALSE, FALSE)
        /\ UNCHANGED <<submitted, surfaced>>

StopListening == StopCall /\ UNCHANGED caller

SubmitAndStop ==
    \E stopThrows \in Throws(isListening /\ recognition # Null) :
        /\ currentSessionId + 1 <= MaxSession
        /\ Apply(submitAndStop(World, stopThrows))
        /\ lastOp' = Op("submitAndStop", Null, FALSE, <<>>,
                        IF lastOp.name = "submitAndStop" THEN "again" ELSE "", FALSE, FALSE)
        /\ submitted' = TRUE
        /\ UNCHANGED <<surfaced, caller>>

\* getCurrentTranscript that hands the transcript over and empties the buffer.
GetCurrentTranscript_Consuming ==
    /\ Apply([World EXCEPT !.finalTranscript = <<>>, !.interimTranscript = <<>>])
    /\ lastOp' = Op("getCurrentTranscript", Null, FALSE, getCurrentTranscript(World), "",
                    FALSE, FALSE)
    /\ UNCHANGED <<submitted, surfaced, caller>>

GetCurrentTranscript ==
    /\ Apply(World)
    /\ lastOp' = Op("getCurrentTranscript", Null, FALSE, getCurrentTranscript(World), "",
                    FALSE, FALSE)
    /\ UNCHANGED <<submitted, surfaced, caller>>

\* An engine whose hooks were unbound delivers its events to nobody: of such
\* an engine only the end is followed. Every event below is one the engine
\* of handle h delivers to the hook bound on it.

\* The engine of handle h reports that it started.
StartEvent ==
    \E h \in hooks :
        /\ eng[h] = "starting"
        /\ Apply(onstart([World EXCEPT !.eng[h] = "running"], h))
        /\ lastOp' = Op("start", h, TRUE, <<>>, "", FALSE, FALSE)
        /\ UNCHANGED <<submitted, surfaced, caller>>

\* The engine of handle h ends: spontaneously, or after a stop, an abort or
\* an error.
EndEvent ==
    \E h \in hooks, outcome \in Outcomes(shouldContinue /\ isListening) :
        /\ eng[h] \in {"running", "stopping", "errored", "aborted"}
        /\ Apply(onend([World EXCEPT !.eng[h] = "idle"], h, outcome))
        /\ lastOp' = Op("end", h, TRUE, <<>>,
                        IF lastOp.name = "error" /\ lastOp.h = h THEN lastOp.kind ELSE "",
                        FALSE, FALSE)
        /\ UNCHANGED <<submitted, surfaced, caller>>

\* An engine the controller has unbound and dropped comes to its end.
UnboundEnd ==
    \E h \in Handles \ hooks :
        /\ eng[h] \in {"running", "aborted"}
        /\ Apply([World EXCEPT !.eng[h] = "idle"])
        /\ lastOp' = Op("end", h, FALSE, <<>>, "", FALSE, FALSE)
        /\ UNCHANGED <<submitted, surfaced, caller>>

Final(t) == [transcript |-> <<t>>, isFinal |-> TRUE]

Interim(t) == [transcript |-> <<t>>, isFinal |-> FALSE]

\* event.results from event.resultIndex on, for the result events the engine
\* delivers: one final, one interim, and finals followed by an interim.
ResultLists ==
    {<<Final("yes")>>,
     <<Final("it works")>>,
     <<Interim("because")>>,
     <<Final("yes"), Final("it works"), Interim("because")>>}

\* The engine of handle h reports results; a stopping engine may still flush.
ResultDelivery(h, results) ==
    /\ eng[h] \in {"running", "stopping"}
    /\ LET w == onresult(World, h, results)
       IN  /\ Len(w.finalTranscript) <= MaxBuf
           /\ Apply(w)
    /\ lastOp' = Op("result", h, TRUE, results, "", FALSE, FALSE)
    /\ UNCHANGED <<submitted, surfaced>>

ResultEvent ==
    \E h \in hooks, results \in ResultLists :
        ResultDelivery(h, results) /\ UNCHANGED caller

\* The engine of handle h reports an error; its end event follows.
ErrorEvent ==
    \E h \in hooks, kind \in ErrorKinds :
        /\ \/ eng[h] \in {"starting", "running", "stopping"}
           \/ eng[h] = "aborted" /\ kind = "aborted"
        /\ Apply(onerror([World EXCEPT !.eng[h] = IF @ = "aborted" THEN @ ELSE "errored"],
                         h, kind))
        /\ lastOp' = Op("error", h, TRUE, <<>>, kind, FALSE, FALSE)
        /\ surfaced' = (surfaced \/ (h = currentSessionId /\ kind \notin {"no-speech", "aborted"}))
        /\ UNCHANGED <<submitted, caller>>

\* A pending retry timer fires.
RetryTimer ==
    \E t \in timers, outcome \in Outcomes(recognition # Null) :
        /\ Apply(retryTimer(World, t, outcome))
        /\ lastOp' = Op("retryTimer", t.sid, FALSE, <<>>, "", FALSE, FALSE)
        /\ UNCHANGED <<submitted, surfaced, caller>>

Next ==
    \/ StartListeningForQuestion
    \/ HardReset
    \/ StopListening
    \/ SubmitAndStop
    \/ GetCurrentTranscript
    \/ StartEvent
    \/ EndEvent
    \/ UnboundEnd
    \/ ResultEvent
    \/ ErrorEvent
    \/ RetryTimer

Spec == Init /\ [][Next]_vars

\* ------------------------------------------------- the interview engine
\* The caller the repository provides (interviewEngine.js). It calls
\* startListeningForQuestion, stopListening and getCurrentTranscript only,
\* and its transcript callback writes the answer input.

\* A step of the caller that calls nothing of the controller.
CallerStep(name) ==
    /\ Apply(World)
    /\ lastOp' = Op(name, Null, FALSE, <<>>, "", FALSE, FALSE)
    /\ UNCHANGED <<submitted, surfaced>>

\* generateNextQuestion(): the next question is displayed and
\* enableAnswerInput() empties and enables the answer input.
GenerateNextQuestion ==
    \E question \in QuestionIds :
        /\ disabled
        /\ CallerStep("generateNextQuestion")
        /\ currentQuestion' = question
        /\ answerInput' = <<>>
        /\ disabled' = FALSE
        /\ UNCHANGED isRecording

\* The user types into the enabled answer input.
TypeAnswer ==
    /\ ~disabled
    /\ CallerStep("input")
    /\ answerInput' = <<"typed">>
    /\ UNCHANGED <<isRecording, currentQuestion, disabled>>

\* toggleVoiceRecording(): the click on the enabled voice button.
ToggleVoiceRecording ==
    /\ ~disabled
    /\ IF isRecording
       THEN /\ StopCall
            /\ isRecording' = FALSE
            /\ LET transcript == Trim(finalTranscript' \o <<" ">> \o interimTranscript')
               IN  answerInput' = IF transcript # <<>> THEN transcript ELSE answerInput
       ELSE /\ StartCall(currentQuestion)
            /\ isRecording' = TRUE
            /\ UNCHANGED answerInput
    /\ UNCHANGED <<currentQuestion, disabled>>

\* submitAnswer() with a non-empty answer, and processAnswer() up to its
\* first await: the input is disabled and a recording is stopped.
ProcessAnswer ==
    /\ ~disabled
    /\ Trim(answerInput) # <<>>
    /\ disabled' = TRUE
    /\ IF isRecording
       THEN StopCall /\ isRecording' = FALSE
       ELSE CallerStep("processAnswer") /\ UNCHANGED isRecording
    /\ UNCHANGED <<currentQuestion, answerInput>>

\* A result event whose transcript callback is the caller's: it writes the
\* transcript into the answer input.
TranscriptDelivered ==
    \E h \in hooks, results \in ResultLists :
        /\ ResultDelivery(h, results)
        /\ answerInput' = IF cbLog' # <<>> THEN cbLog'[Len(cbLog')].arg ELSE answerInput
        /\ UNCHANGED <<isRecording, currentQuestion, disabled>>

CallerNext ==
    \/ GenerateNextQuestion
    \/ TypeAnswer
    \/ ToggleVoiceRecording
    \/ ProcessAnswer
    \/ TranscriptDelivered
    \/ StartEvent
    \/ EndEvent
    \/ UnboundEnd
    \/ ErrorEvent
    \/ RetryTimer

\* The controller driven by the interview engine.
CallerSpec == Init /\ [][CallerNext]_vars

TypeOK ==
    /\ recognition \in Handles \cup {Null}
    /\ currentSessionId \in 0..MaxSession
    /\ activeSessionId \in Handles \cup {Null}
    /\ isListening \in BOOLEAN
    /\ Len(finalTranscript) <= MaxBuf
    /\ onTranscriptCallback \in Handles \cup {Null}
    /\ onErrorCallback \in Handles \cup {Null}
    /\ shouldContinue \in BOOLEAN
    /\ currentQuestionId \in QuestionIds \cup {NoQuestion}
    /\ eng \in [Handles -> {"none", "idle", "starting", "running", "stopping", "errored", "aborted"}]
    /\ hooks \subseteq Handles
    /\ submitted \in BOOLEAN
    /\ raised \in BOOLEAN
    /\ surfaced \in BOOLEAN
    /\ isRecording \in BOOLEAN
    /\ currentQuestion \in QuestionIds \cup {NoQuestion}
    /\ disabled \in BOOLEAN

\* ----------------------------------------------------------------- claims

Calls == {"startListeningForQuestion", "hardReset", "stopListening", "submitAndStop",
          "getCurrentTranscript"}

Events == {"start", "end", "result", "error"}

\* The step is an event of kind name that a hook received from a handle
\* created in a session other than the current one.
StaleEvent(names) ==
    /\ lastOp'.name \in names
    /\ lastOp'.ok
    /\ lastOp'.h # currentSessionId

\* C1. Session monotonicity: each startListeningForQuestion, hardReset and
\* submitAndStop call leaves the session identifier strictly greater than it
\* was, and no step of any kind ever lowers it, so no value is taken twice.
C1_SessionMonotonic ==
    [][/\ currentSessionId' >= currentSessionId
       /\ lastOp'.name \in {"startListeningForQuestion", "hardReset", "submitAndStop"}
              => currentSessionId' > currentSessionId]_vars

C1_Witness ==
    /\ lastOp.name = "submitAndStop"
    /\ currentSessionId >= 4

\* C2. Stale isolation: a result or error event from a handle whose captured
\* session differs from the current session invokes no callback and leaves
\* both transcript buffer parts unchanged.
C2_StaleIsolation ==
    [][StaleEvent({"result", "error"})
           => /\ cbLog' = <<>>
              /\ finalTranscript' = finalTranscript
              /\ interimTranscript' = interimTranscript]_vars

C2_Witness ==
    /\ lastOp.name = "result"
    /\ lastOp.ok
    /\ lastOp.h # currentSessionId
    /\ finalTranscript # <<>>
    /\ onTranscriptCallback # Null

\* C3. No stale event of any kind (start, end, result, error) changes any
\* controller field.
C3_NoStaleMutation ==
    [][StaleEvent(Events) => UNCHANGED fields]_vars

\* C4. Question-change isolation: right after a startListeningForQuestion
\* call that changed the question, both buffer parts are empty and
\* getCurrentTranscript() returns the empty string.
C4_QuestionChangeIsolation ==
    (lastOp.name = "startListeningForQuestion" /\ lastOp.changed)
        => /\ finalTranscript = <<>>
           /\ interimTranscript = <<>>
           /\ getCurrentTranscript(World) = <<>>

C4_Witness ==
    /\ lastOp.name = "startListeningForQuestion"
    /\ lastOp.changed
    /\ lastOp.hadText
    /\ currentQuestionId = "Q2"

\* C5. Right after any startListeningForQuestion call, whatever it returned
\* and whether or not the question changed, both buffer parts are empty.
C5_ClearedOnStart ==
    lastOp.name = "startListeningForQuestion"
        => /\ finalTranscript = <<>>
           /\ interimTranscript = <<>>

\* C6. Graceful stop preserves the transcript: stopListening() leaves the
\* buffers, the session identifier, the stored callbacks and the handle
\* reference unchanged, and with them the value of getCurrentTranscript().
C6_StopPreserves ==
    [][lastOp'.name = "stopListening"
           => /\ UNCHANGED <<finalTranscript, interimTranscript, currentSessionId,
                             onTranscriptCallback, onErrorCallback, recognition>>
              /\ getCurrentTranscript(World)' = getCurrentTranscript(World)]_vars

C6_Witness ==
    /\ lastOp.name = "stopListening"
    /\ engLog # <<>>
    /\ finalTranscript # <<>>

\* C7. Terminal stop: between submitAndStop() and the next
\* startListeningForQuestion call, no engine event and no retry timer invokes
\* a callback or changes the transcript buffers.
C7_TerminalStop ==
    [][(submitted /\ lastOp'.name \in Events \cup {"retryTimer"})
           => /\ cbLog' = <<>>
              /\ UNCHANGED <<finalTranscript, interimTranscript>>]_vars

C7_Witness ==
    /\ submitted
    /\ lastOp.name = "result"
    /\ lastOp.ok
    /\ finalTranscript # <<>>

\* The step is an end event received from the handle of the current session.
CurrentEnd ==
    /\ lastOp'.name = "end"
    /\ lastOp'.ok
    /\ lastOp'.h = currentSessionId

Restarted == engLog' = <<[op |-> "start", h |-> lastOp'.h]>>

\* C8 as stated: an end event of the current session restarts the engine
\* whenever the continuation flag is true; with the flag false it does not,
\* and the controller reports not listening.
C8_Original ==
    [][CurrentEnd
           => IF shouldContinue
              THEN Restarted
              ELSE engLog' = <<>> /\ ~isListening']_vars

\* C8, amended. An end event of the current session restarts the engine when
\* the continuation flag and the listening flag are both true; with the
\* continuation flag false it invokes no start and the controller reports
\* not listening.
C8_AutoRestart ==
    [][CurrentEnd
           => /\ (shouldContinue /\ isListening) => Restarted
              /\ ~shouldContinue => (engLog' = <<>> /\ ~isListening')]_vars

C8_Witness ==
    /\ lastOp.name = "end"
    /\ lastOp.ok
    /\ lastOp.h = currentSessionId
    /\ shouldContinue
    /\ isListening
    /\ engLog = <<[op |-> "start", h |-> lastOp.h]>>
    /\ eng[lastOp.h] = "starting"

\* C9. Capability absence: a startListeningForQuestion call for which no
\* engine can be created returns false, invokes the supplied error callback
\* exactly once, schedules no retry, and leaves no handle and not listening.
C9_CapabilityAbsence ==
    [][(lastOp'.name = "startListeningForQuestion" /\ lastOp'.kind = "no-engine")
           => /\ ~lastOp'.ok
              /\ cbLog' = <<[cb |-> "onError", owner |-> currentSessionId',
                             arg |-> <<"Speech recognition not supported">>]>>
              /\ timers' = timers
              /\ recognition' = Null
              /\ ~isListening'
              /\ engLog' \in {<<>>, <<[op |-> "abort", h |-> recognition]>>}]_vars

C9_Witness ==
    /\ lastOp.name = "startListeningForQuestion"
    /\ lastOp.kind = "no-engine"
    /\ ~lastOp.changed
    /\ engLog # <<>>

\* C10. getCurrentTranscript() is a pure read: it changes no field of the
\* controller (nor any engine or timer), it returns the trimmed buffer, and a
\* second call right after the first returns the same value.
C10_PureRead ==
    [][lastOp'.name = "getCurrentTranscript"
           => /\ UNCHANGED <<fields, eng, hooks, timers>>
              /\ engLog' = <<>> /\ cbLog' = <<>>
              /\ lastOp.name = "getCurrentTranscript" => lastOp'.text = lastOp.text]_vars

C10_Witness ==
    /\ lastOp.name = "getCurrentTranscript"
    /\ lastOp.text = <<"yes", " ", "it works">>

\* The state is the one right after a result event that the hook of the
\* current session's handle received.
AfterCurrentResult ==
    /\ lastOp.name = "result"
    /\ lastOp.ok
    /\ lastOp.h = currentSessionId

\* The step is a result event that the hook of the current session's handle
\* receives.
CurrentResult ==
    /\ lastOp'.name = "result"
    /\ lastOp'.ok
    /\ lastOp'.h = currentSessionId

IsFinalResult(r) == r.isFinal

IsInterimResult(r) == ~r.isFinal

\* The transcripts of the results rs, each followed by sep.
RECURSIVE Joined(_, _)
Joined(rs, sep) ==
    IF rs = <<>> THEN <<>> ELSE Head(rs).transcript \o sep \o Joined(Tail(rs), sep)

\* C11. Buffer composition: after a result event of the current session,
\* getCurrentTranscript() returns the accumulated final fragments followed by
\* the interim fragments of that event ("yes it works because" after the
\* finals "yes", "it works" and the interim "because").
C11_BufferComposition ==
    AfterCurrentResult
        => getCurrentTranscript(World)
               = Trim(finalTranscript \o <<" ">>
                      \o Joined(SelectSeq(lastOp.text, IsInterimResult), <<>>))

\* C12. A non-stale result event appends each finalized fragment followed by
\* one space to the final buffer and invokes the transcript callback exactly
\* once, with the trimmed concatenation of the final buffer, one space and the
\* interim fragments of the event.
C12_ResultEvent ==
    [][CurrentResult
           => /\ finalTranscript'
                     = finalTranscript \o Joined(SelectSeq(lastOp'.text, IsFinalResult), <<" ">>)
              /\ cbLog' = <<[cb |-> "onTranscript", owner |-> lastOp'.h,
                             arg |-> Trim(finalTranscript' \o <<" ">>
                                          \o Joined(SelectSeq(lastOp'.text, IsInterimResult), <<>>))]>>]_vars

C12_Witness ==
    /\ AfterCurrentResult
    /\ Len(lastOp.text) = 3
    /\ cbLog # <<>>
    /\ cbLog[1].arg = <<"yes", " ", "it works", " ", " ", "because">>

\* Engine states in which start has been invoked and the engine has neither
\* ended nor been aborted.
Started == {"starting", "running", "stopping", "errored"}

\* C13. No concurrent engines: at most one engine created by the controller
\* is running (start invoked, neither ended nor aborted).
C13_NoConcurrentEngines ==
    Cardinality({h \in Handles : eng[h] \in Started}) <= 1

\* C14. No handle outlives its session: a held handle was created in the
\* current session.
C14_HandleOfCurrentSession ==
    recognition # Null => recognition = currentSessionId

\* The held handle's engine has had start invoked and has not ended.
HeldEngineActive ==
    /\ recognition # Null
    /\ eng[recognition] \in Started

\* C15. stopListening() and submitAndStop() invoke stop on the held engine
\* whenever it has been started and has not ended, whether or not its start
\* event was delivered, and isActive() is false when they return.
C15_StopAsksEngine ==
    [][(lastOp'.name \in {"stopListening", "submitAndStop"} /\ HeldEngineActive)
           => /\ engLog' = <<[op |-> "stop", h |-> recognition]>>
              /\ ~isListening']_vars

\* C16. submitAndStop() postcondition: the continuation flag and the
\* listening flag are false, the session identifier is exactly one greater,
\* and the transcript buffers and the stored callbacks are unchanged.
C16_SubmitPostcondition ==
    [][lastOp'.name = "submitAndStop"
           => /\ ~shouldContinue'
              /\ ~isListening'
              /\ currentSessionId' = currentSessionId + 1
              /\ UNCHANGED <<finalTranscript, interimTranscript,
                             onTranscriptCallback, onErrorCallback>>]_vars

C16_Witness ==
    /\ lastOp.name = "submitAndStop"
    /\ engLog # <<>>
    /\ finalTranscript # <<>>
    /\ onTranscriptCallback # Null
    /\ onErrorCallback # Null

\* C17. hardReset() postcondition: from any state it returns without raising,
\* the session identifier is greater, the continuation flag and the
\* listening flag are false, both buffer parts are empty, both callbacks are
\* cleared and no handle is held.
C17_HardResetPostcondition ==
    [][lastOp'.name = "hardReset"
           => /\ ~raised'
              /\ currentSessionId' > currentSessionId
              /\ ~shouldContinue'
              /\ ~isListening'
              /\ finalTranscript' = <<>>
              /\ interimTranscript' = <<>>
              /\ onTranscriptCallback' = Null
              /\ onErrorCallback' = Null
              /\ recognition' = Null]_vars

\* hardReset() has returned after the abort it invoked on a listening engine
\* threw: the engine was dropped still running.
C17_Witness ==
    /\ lastOp.name = "hardReset"
    /\ \E h \in Handles : engLog = <<[op |-> "abort", h |-> h]>> /\ eng[h] = "running"
    /\ recognition = Null

\* C18. Destroying a handle aborts an active engine: when hardReset() or
\* startListeningForQuestion discards a held handle whose engine has been
\* started and has not ended, abort is invoked on that engine, whatever the
\* listening flag is.
C18_DiscardAborts ==
    [][(lastOp'.name \in {"hardReset", "startListeningForQuestion"} /\ HeldEngineActive)
           => \E i \in DOMAIN engLog' : engLog'[i] = [op |-> "abort", h |-> recognition]]_vars

\* The step repeats the hardReset() or submitAndStop() call that the step
\* before it made.
RepeatedCancel ==
    /\ lastOp.name \in {"hardReset", "submitAndStop"}
    /\ lastOp'.name = lastOp.name

\* C19 as stated: a second hardReset() or submitAndStop() right after the
\* first leaves the controller in the state the first left it in.
C19_Original ==
    [][RepeatedCancel => UNCHANGED <<fields, eng, hooks, timers>>]_vars

\* C19, amended. A second hardReset() or submitAndStop() right after the
\* first changes nothing but the session identifier, which it increments
\* again, and invokes no engine operation and no callback.
C19_IdempotentButSession ==
    [][RepeatedCancel
           => /\ UNCHANGED <<recognition, activeSessionId, isListening, finalTranscript,
                             interimTranscript, onTranscriptCallback, onErrorCallback,
                             shouldContinue, currentQuestionId, eng, hooks, timers>>
              /\ currentSessionId' = currentSessionId + 1
              /\ engLog' = <<>>
              /\ cbLog' = <<>>
              /\ ~raised']_vars

C19_Witness ==
    /\ lastOp.name = "submitAndStop"
    /\ lastOp.kind = "again"
    /\ recognition # Null
    /\ eng[recognition] \in Started
    /\ finalTranscript # <<>>

\* The state is the one right after a startListeningForQuestion call that
\* returned false.
AfterFailedStart ==
    /\ lastOp.name = "startListeningForQuestion"
    /\ ~lastOp.ok

\* C20. Whenever startListeningForQuestion returns false, the
\* supplied error callback has been invoked before the call returns.
C20_Original ==
    AfterFailedStart => \E i \in DOMAIN cbLog : cbLog[i].cb = "onError"

\* The step is a startListeningForQuestion call whose engine start threw the
\* already-started error.
TransientStartFailure ==
    /\ lastOp'.name = "startListeningForQuestion"
    /\ lastOp'.kind = "InvalidStateError"

\* The retries pending for session sid.
RetriesOf(ts, sid) == {t \in ts : t.sid = sid}

\* The step is the firing of a retry timer; lastOp'.h is the session
\* identifier its closure captured.
RetryFires == lastOp'.name = "retryTimer"

RetryRecovers ==
    /\ lastOp'.h = currentSessionId
    /\ recognition # Null
    /\ eng[recognition] = "idle"
    /\ eng'[recognition] = "starting"

\* C22. A transient start failure that does not recover is surfaced: when
\* the retry fires and its start throws, or the session was superseded before
\* it fired, the error callback supplied to the call that scheduled the retry
\* is invoked with the failed-to-start message.
C22_UnrecoveredSurfaced ==
    [][(RetryFires /\ ~RetryRecovers)
           => cbLog' = <<[cb |-> "onError", owner |-> lastOp'.h,
                          arg |-> <<"Failed to start voice input">>]>>]_vars

\* The step is an error event delivered by the handle of the current session.
CurrentError ==
    /\ lastOp'.name = "error"
    /\ lastOp'.ok
    /\ lastOp'.h = currentSessionId

Benign == {"no-speech", "aborted"}

\* onError invoked once, with message, on the callback the current session's
\* start call supplied.
ReportedOnce(message) ==
    cbLog' = <<[cb |-> "onError", owner |-> currentSessionId, arg |-> message]>>

\* C23. Error classification: for an error event of the current session,
\* kinds no-speech and aborted invoke no callback; audio-capture invokes
\* onError once with the no-microphone message; not-allowed invokes onError
\* once with the permission-denied message; every other kind invokes onError
\* once with the generic message that embeds the kind.
C23_ErrorClassification ==
    [][CurrentError
           => CASE lastOp'.kind \in Benign -> cbLog' = <<>>
                [] lastOp'.kind = "audio-capture" -> ReportedOnce(<<"No microphone found">>)
                [] lastOp'.kind = "not-allowed" -> ReportedOnce(<<"Microphone access denied">>)
                [] OTHER -> ReportedOnce(<<"Error: ", lastOp'.kind>>)]_vars

C23_Witness ==
    /\ lastOp.name = "error"
    /\ lastOp.h = currentSessionId
    /\ lastOp.kind = "network"
    /\ cbLog = <<[cb |-> "onError", owner |-> currentSessionId, arg |-> <<"Error: ", "network">>]>>

\* C24 as stated: any error event of the current session, of any kind
\* including no-speech and aborted, leaves the listening flag false and the
\* handle, the session identifier and the transcript buffers unchanged.
C24_Original ==
    [][CurrentError
           => /\ ~isListening'
              /\ UNCHANGED <<recognition, currentSessionId, finalTranscript, interimTranscript>>]_vars

\* C24, amended. An error event of the current session leaves the handle,
\* the session identifier and the transcript buffers unchanged; it leaves the
\* listening flag false for every kind except no-speech and aborted, which
\* leave the flag as it was.
C24_ErrorKeepsHandle ==
    [][CurrentError
           => /\ UNCHANGED <<recognition, currentSessionId, finalTranscript, interimTranscript>>
              /\ hooks' = hooks
              /\ IF lastOp'.kind \in Benign
                 THEN UNCHANGED isListening
                 ELSE ~isListening']_vars

\* A listening session with text got a device error.
C24_Witness ==
    /\ lastOp.name = "error"
    /\ lastOp.h = currentSessionId
    /\ lastOp.kind = "audio-capture"
    /\ recognition = lastOp.h
    /\ eng[recognition] = "errored"
    /\ finalTranscript # <<>>
    /\ ~isListening

\* The state is the one right after a no-speech or aborted error event of
\* the current session, which is listening with the continuation flag true.
AfterBenignError ==
    /\ lastOp.name = "error"
    /\ lastOp.ok
    /\ lastOp.kind \in Benign
    /\ lastOp.h = currentSessionId
    /\ isListening
    /\ shouldContinue

\* C25. Recoverable listening gaps stay eligible for auto-restart: when a
\* listening current session with the continuation flag true gets a no-speech
\* or aborted error event and then the engine's end event, the error event
\* invokes no callback and the end event invokes the engine's start again
\* and no callback.
C25_BenignRestart ==
    [][/\ (CurrentError /\ lastOp'.kind \in Benign /\ isListening /\ shouldContinue)
            => AfterBenignError' /\ cbLog' = <<>>
       /\ (AfterBenignError /\ lastOp'.name = "end" /\ lastOp'.h = lastOp.h)
            => /\ engLog' = <<[op |-> "start", h |-> lastOp.h]>>
               /\ recognition' = lastOp.h
               /\ cbLog' = <<>>]_vars

\* The engine ended right after a no-speech error and was started again.
C25_Witness ==
    /\ lastOp.name = "end"
    /\ lastOp.kind = "no-speech"
    /\ lastOp.h = currentSessionId
    /\ engLog = <<[op |-> "start", h |-> recognition]>>
    /\ eng[recognition] = "starting"
    /\ isListening
    /\ cbLog = <<>>

\* The step invokes start on no engine.
NoStart == \A i \in DOMAIN engLog' : engLog'[i].op # "start"

\* C26. Device, permission and unknown engine errors are not retried: an
\* error event of the current session of a kind other than no-speech and
\* aborted leaves the controller not listening, and from then until the
\* caller calls startListeningForQuestion again no step (the engine's end
\* event included) invokes an engine's start or sets the listening flag.
C26_NotRetried ==
    [][/\ (CurrentError /\ lastOp'.kind \notin Benign) => (surfaced' /\ ~isListening')
       /\ (surfaced /\ lastOp'.name # "startListeningForQuestion")
            => (surfaced' /\ ~isListening' /\ NoStart)]_vars

\* The engine ended right after a permission error, with the continuation
\* flag still true, and was not started again.
C26_Witness ==
    /\ lastOp.name = "end"
    /\ lastOp.kind = "not-allowed"
    /\ lastOp.h = currentSessionId
    /\ surfaced
    /\ shouldContinue
    /\ engLog = <<>>
    /\ eng[recognition] = "idle"
    /\ ~isListening

\* C27. No engine exception reaches the caller: whichever engine start, stop
\* and abort calls throw, none of startListeningForQuestion, stopListening,
\* submitAndStop, hardReset, the end-event handler and the retry timer
\* callback lets an exception escape.
C27_NoEscape ==
    lastOp.name \in {"startListeningForQuestion", "stopListening", "submitAndStop",
                     "hardReset", "end", "retryTimer"}
        => ~raised

\* stopListening asked a started engine to stop and the stop call threw: the
\* engine is still started, the call returned normally.
C27_Witness ==
    /\ lastOp.name = "stopListening"
    /\ recognition # Null
    /\ engLog = <<[op |-> "stop", h |-> recognition]>>
    /\ eng[recognition] = "running"
    /\ ~isListening
    /\ ~raised

\* stopListening() was called on the current session and no
\* startListeningForQuestion, hardReset or submitAndStop since: only these
\* four set the continuation flag, and the last three change the session.
StoppedNotSuperseded ==
    /\ ~shouldContinue
    /\ recognition = currentSessionId
    /\ recognition \in hooks

\* C28. stopListening() leaves the session addressable: a result event that
\* the current handle delivers after stopListening() and before any
\* startListeningForQuestion, hardReset or submitAndStop call is accepted:
\* its final fragments are appended to the final buffer and onTranscript is
\* invoked.
C28_StoppedStillAddressable ==
    [][(StoppedNotSuperseded /\ lastOp'.name = "result" /\ lastOp'.h = recognition)
           => /\ finalTranscript'
                     = finalTranscript \o Joined(SelectSeq(lastOp'.text, IsFinalResult), <<" ">>)
              /\ Len(cbLog') = 1
              /\ cbLog'[1].cb = "onTranscript"
              /\ cbLog'[1].owner = currentSessionId]_vars

\* A stopping engine flushed a final result after stopListening().
C28_Witness ==
    /\ lastOp.name = "result"
    /\ lastOp.text = <<Final("it works")>>
    /\ StoppedNotSuperseded
    /\ lastOp.h = recognition
    /\ eng[recognition] = "stopping"
    /\ ~isListening
    /\ Len(finalTranscript) >= 2
    /\ cbLog # <<>>

\* The step is an end event on which the handler decides to restart and the
\* engine's start throws.
FailedRestart ==
    /\ lastOp'.name = "end"
    /\ lastOp'.ok
    /\ shouldContinue /\ isListening /\ lastOp'.h = currentSessionId
    /\ eng'[lastOp'.h] # "starting"

\* C29. A failed auto-restart is silent: when the end-event handler decides
\* to restart and the engine's start throws, the controller marks itself not
\* listening, invokes neither callback, and leaves the session identifier,
\* the continuation flag and the transcript buffers unchanged.
C29_SilentFailedRestart ==
    [][FailedRestart
           => /\ engLog' = <<[op |-> "start", h |-> lastOp'.h]>>
              /\ ~isListening'
              /\ cbLog' = <<>>
              /\ ~raised'
              /\ UNCHANGED <<currentSessionId, shouldContinue, finalTranscript,
                             interimTranscript, recognition>>]_vars

\* The restart of a session with text was tried and failed.
C29_Witness ==
    /\ lastOp.name = "end"
    /\ lastOp.h = currentSessionId
    /\ recognition = lastOp.h
    /\ engLog = <<[op |-> "start", h |-> recognition]>>
    /\ eng[recognition] = "idle"
    /\ shouldContinue
    /\ ~isListening
    /\ finalTranscript # <<>>

\* C30. The delayed retry never acts on a torn-down or replaced handle:
\* whenever the retry timer invokes an engine's start, the handle it starts
\* is the one created by the startListeningForQuestion call that scheduled
\* the retry (the handle of the session its closure captured), and the
\* controller still holds it with its hooks bound.
C30_RetryOnOwnHandle ==
    [][(RetryFires /\ engLog' # <<>>)
           => /\ engLog' = <<[op |-> "start", h |-> lastOp'.h]>>
              /\ recognition = lastOp'.h
              /\ lastOp'.h \in hooks]_vars

\* After a stopListening() during the delay, the retry started the handle of
\* its own call.
C30_Witness ==
    /\ lastOp.name = "retryTimer"
    /\ lastOp.h = recognition
    /\ engLog = <<[op |-> "start", h |-> recognition]>>
    /\ eng[recognition] = "starting"
    /\ ~shouldContinue

\* s is a prefix of t.
IsPrefix(s, t) == Len(s) <= Len(t) /\ SubSeq(t, 1, Len(s)) = s

\* C31. The final transcript is append-only within a session: a step that
\* changes the final buffer is a buffer clear (startListeningForQuestion or
\* hardReset) or a result event of the current session, and the result event
\* extends it: the old value is a prefix of the new one.
C31_AppendOnly ==
    [][finalTranscript' # finalTranscript
           => \/ lastOp'.name \in {"startListeningForQuestion", "hardReset"}
                    /\ finalTranscript' = <<>>
              \/ CurrentResult /\ IsPrefix(finalTranscript, finalTranscript')]_vars

\* A second result event extended the text the first had appended.
C31_Witness ==
    /\ lastOp.name = "result"
    /\ lastOp.h = currentSessionId
    /\ lastOp.text = <<Final("it works")>>
    /\ finalTranscript = <<"yes", " ", "it works", " ">>

\* C33. Read/callback consistency: right after a result event of the current
\* session has invoked onTranscript with value v, getCurrentTranscript()
\* returns v.
C33_ReadEqualsCallback ==
    (AfterCurrentResult /\ cbLog # <<>>)
        => getCurrentTranscript(World) = cbLog[Len(cbLog)].arg

\* C34. After stopListening() returns, isActive() stays false until the
\* caller next calls startListeningForQuestion: the listening flag is never
\* true while the continuation flag is false.
C34_StoppedStaysInactive ==
    ~shouldContinue => ~isActive(World)

\* C35. The controller never invokes an engine's start while the
\* continuation flag is false: after stopListening(), submitAndStop() or
\* hardReset() and before the next startListeningForQuestion call, neither
\* the end-event handler nor a pending retry timer calls start.
C35_NoStartWhileStopped ==
    [][(~shouldContinue /\ lastOp'.name # "startListeningForQuestion") => NoStart]_vars

\* The state is the one right after the retry of the current session fired:
\* a retry is scheduled only by a startListeningForQuestion call that returns
\* false, and the session is still that call's, so the caller has not called
\* startListeningForQuestion since.
AfterRetryOfRefusedStart ==
    /\ lastOp.name = "retryTimer"
    /\ lastOp.h = currentSessionId

\* C36. A false return means the session does not listen: after
\* startListeningForQuestion has returned false and until the caller calls
\* it again, no step makes isActive() true or invokes onTranscript; here for
\* the steps that follow the firing of that call's retry.
C36_RefusedStaysInactive ==
    [][(AfterRetryOfRefusedStart /\ lastOp'.name # "startListeningForQuestion")
           => /\ ~isListening'
              /\ \A i \in DOMAIN cbLog' : cbLog'[i].cb # "onTranscript"]_vars

\* The step is an end event whose handler restarts the engine.
AutoRestart ==
    /\ lastOp'.name = "end"
    /\ lastOp'.ok
    /\ engLog' = <<[op |-> "start", h |-> lastOp'.h]>>
    /\ eng'[lastOp'.h] = "starting"

\* C37. An auto-restart changes nothing but the engine: when the end-event
\* handler restarts the engine, the session identifier, the handle, the
\* continuation and listening flags, the stored callbacks and both transcript
\* buffer parts are unchanged, and it is the held handle that is restarted.
C37_RestartFrame ==
    [][AutoRestart
           => /\ UNCHANGED fields
              /\ UNCHANGED <<hooks, timers>>
              /\ recognition = lastOp'.h
              /\ cbLog' = <<>>]_vars

\* A session with text was restarted after its engine ended by itself.
C37_Witness ==
    /\ lastOp.name = "end"
    /\ lastOp.kind = ""
    /\ recognition = lastOp.h
    /\ engLog = <<[op |-> "start", h |-> recognition]>>
    /\ eng[recognition] = "starting"
    /\ finalTranscript = <<"yes", " ">>
    /\ isListening

\* C38. In every reachable state, if the listening flag is true then the
\* controller holds a handle (a handle whose hooks destroyRecognition unbound
\* delivers no further events).
C38_ListeningHoldsHandle ==
    isActive(World) => (recognition # Null /\ recognition \in hooks)

\* hardReset() has just aborted and dropped the handle of a listening
\* session, whose engine has yet to end: not listening, no handle.
C38_Witness ==
    /\ lastOp.name = "hardReset"
    /\ engLog # <<>>
    /\ recognition = Null
    /\ hooks = {}
    /\ \E h \in Handles : eng[h] = "aborted"
    /\ ~isListening

\* The step is a result event on which the caller's transcript callback is
\* invoked, and so writes the answer input.
TranscriptWritten ==
    /\ lastOp'.name = "result"
    /\ \E i \in DOMAIN cbLog' : cbLog'[i].cb = "onTranscript"
    /\ answerInput' # <<>>

\* C32. No transcript leakage between questions in the interview engine:
\* once the answer to a question has been processed and the next question is
\* displayed with an empty answer input, no transcript callback of the
\* earlier question's session writes the answer input. The stored callback
\* is the one supplied for the controller's currentQuestionId, so a callback
\* writes only while that is the question displayed.
C32_NoLeakBetweenQuestions ==
    [][TranscriptWritten => currentQuestionId = currentQuestion]_vars

====
